---- MODULE Spec2Model ----
(***************************************************************************)
(* Authentication and credential lifecycle of HealthAPI: registration,     *)
(* e-mail confirmation, login, refresh-token rotation, logout and password *)
(* reset, over the users table of the relational store.                    *)
(*                                                                         *)
(* Spec      the requests of the lifecycle, served one at a time           *)
(* ConcSpec  login, refresh and logout with their reads and writes         *)
(*           interleaved                                                   *)
(* RegSpec   registrations with their lookups and saves interleaved        *)
(* AcctSpec  the requests that carry a bearer, over users, profiles and    *)
(*           measurements                                                  *)
(* FaultSpec the answers of the auth controller to thrown errors           *)
(*                                                                         *)
(* The controllers, UsersService and the User entity are translated from   *)
(* the sources.  AuthService, the guards and the users controller are not  *)
(* among the sources; they are modelled from the specification and are     *)
(* marked as such where they are defined.                                  *)
(***************************************************************************)
EXTENDS Integers, Sequences, FiniteSets, TLC

\* ------------------------------------------------------------------ bounds
MaxTokens == 3
MaxInflight == 2

\* ------------------------------------------------------------------ inputs
Emails == {"a@x.com", "b@x.com"}
Passwords == {"Qwert12345!", "Asdfg67890?"}
Codes == {1, 2}

\* ------------------------------------------------------------------- state
VARIABLES
  users,     \* the users table: a sequence of rows, row i has id i
  issued,    \* tokens handed to clients (responses and e-mails)
  nextJti,   \* next fresh refresh-token identifier
  revoked,   \* identifiers removed by a successful refresh, logout or reset
  resp,      \* the last request and its response
  inflight,  \* requests between their read and their write (concurrent runs)
  profiles,  \* the profiles table: one row per user, owned by userId
  measurements  \* the measurements table: rows owned by userId

vars == <<users, issued, nextJti, revoked, resp, inflight, profiles,
          measurements>>

\* ----------------------------------------------------------- User entity
\* A password column holds a sequence: <<>> is null, <<p>> the plain text p
\* as a request carries it, and each hashing puts one "bcrypt" in front
\* (one-way: a digest is never its input).  The salt is part of the digest
\* and bcrypt.compare reads it back, so a digest is kept up to its salt.
bcryptHash(x) == <<"bcrypt">> \o x

bcryptCompare(plain, digest) == digest = bcryptHash(<<plain>>)

\* @BeforeInsert/@BeforeUpdate hook
hashPassword(row) ==
  IF row.password # <<>>
    THEN [row EXCEPT !.password = bcryptHash(row.password)]
    ELSE row

\* the password compared with the column itself instead of by bcrypt
validatePassword_plain(row, password) == row.password = <<password>>

validatePassword(row, password) == bcryptCompare(password, row.password)

\* repository.create(userInfo) with the column defaults of the entity
\* (height: the nullable column the users e2e tests read, 0 for null)
createUser(id, email, password) ==
  [id |-> id, email |-> email, password |-> <<password>>,
   refreshTokens |-> <<>>, verified |-> FALSE, verificationCode |-> 0,
   height |-> 0]

\* what findOneBy yields when no row matches
Null == [createUser(0, "", "") EXCEPT !.password = <<>>]

\* ------------------------------------------------------------- repository
Ids(us) == 1..Len(us)

findOneByEmail(us, email) ==
  IF \E i \in Ids(us) : us[i].email = email
    THEN us[CHOOSE i \in Ids(us) :
              /\ us[i].email = email
              /\ \A j \in Ids(us) : us[j].email = email => i <= j]
    ELSE Null

findOneById(us, id) == IF id \in Ids(us) THEN us[id] ELSE Null

\* the unique constraint of the email column
emailUnique(us, email) == \A i \in Ids(us) : us[i].email # email

\* repository.save of a new entity: the insert hook, then the insert; the
\* store refuses a second row with the same email (QueryFailedError)
saveNew(us, row) ==
  IF emailUnique(us, row.email)
    THEN [users |-> Append(us, hashPassword(row)), exc |-> "none"]
    ELSE [users |-> us, exc |-> "QueryFailedError"]

\* the profile row saved with a new user (cascade insert), columns at
\* their defaults (height 0 for null)
cascadeInsert(ps, userId) == ps \cup {[userId |-> userId, height |-> 0]}

\* repository.delete(id): the row is gone; ids are never given again, so
\* the place of row id holds no row from then on
deleteRow(us, id) == IF id \in Ids(us) THEN [us EXCEPT ![id] = Null] ELSE us

\* the owned rows that stay when the store deletes user id: the foreign key
\* of the owning side removes them with the user
onDeleteCascade(rows, id) == {r \in rows : r.userId # id}

\* ------------------------------------------------------------ UsersService
\* the lookup before the insert left out
registerUser_noLookup(us, email, password) ==
  saveNew(us, createUser(Len(us) + 1, email, password))

registerUser(us, email, password) ==
  IF findOneByEmail(us, email).id # 0
    THEN [users |-> us, exc |-> "UserDuplicateException"]
    ELSE saveNew(us, createUser(Len(us) + 1, email, password))

checkIfEmailExist(us, email) ==
  IF findOneByEmail(us, email).id = 0
    THEN "UserNotFoundException"
    ELSE "none"

\* the check of the verified flag left out
checkIfEmailVerified_noVerifiedCheck(us, email) ==
  IF findOneByEmail(us, email).id = 0
    THEN "UserNotFoundException"
    ELSE "none"

checkIfEmailVerified(us, email) ==
  IF findOneByEmail(us, email).id = 0
    THEN "UserNotFoundException"
    ELSE IF ~findOneByEmail(us, email).verified
      THEN "UserNotVerifiedException"
      ELSE "none"

getUser(us, id) == findOneById(us, id)

\* the row looked up and left in the table
deleteUser_findOnly(us, id) == [users |-> us, user |-> findOneById(us, id)]

deleteUser(us, id) ==
  [users |-> deleteRow(us, id), user |-> findOneById(us, id)]

\* the update run through the entity's @BeforeUpdate hook
updateRow_withHook(us, row) == [us EXCEPT ![row.id] = hashPassword(row)]

\* repository update of one row (no entity hook runs: columns are written
\* as given)
updateRow(us, row) == [us EXCEPT ![row.id] = row]

\* -------------------------------------------------------------- Token Codec
\* A token is a signed payload: its kind, its subject (a user id, or an
\* email for a confirmation token), the identifier of a refresh token, and
\* the state of its signature and expiry as the verifier will find them.
Token(kind, sub, email, jti) ==
  [kind |-> kind, sub |-> sub, email |-> email, jti |-> jti, sig |-> "ok"]

accessToken(id) == Token("access", id, "", 0)
refreshToken(id, jti) == Token("refresh", id, "", jti)
confirmationToken(email) == Token("confirmation", 0, email, 0)

\* one secret for every kind: the kind of the token is not looked at
verifyToken_anyKind(tok, kind) == tok.sig = "ok"

\* verification under the secret of one kind: signature, kind and expiry
verifyToken(tok, kind) == tok.kind = kind /\ tok.sig = "ok"

\* what a client can present where a token of one kind is expected: any
\* token it was given, as given, or one of that kind with its signature
\* broken or after its expiry
Presentable(kind) ==
  issued \cup {[t EXCEPT !.sig = s] :
                 t \in {x \in issued : x.kind = kind},
                 s \in {"tampered", "expired"}}

\* ------------------------------------------------------------------- guards
\* each guard yields the exception it raises, "none" when the request passes
EmailExistGuard(us, email) == checkIfEmailExist(us, email)

EmailVerifiedGuard(us, email) == checkIfEmailVerified(us, email)

JwtAuthGuard(bearer) ==
  IF verifyToken(bearer, "access") THEN "none" ELSE "UnauthorizedException"

\* the status a guard's exception is answered with
guardStatus(exc) ==
  CASE exc = "UserNotFoundException" -> 404
    [] exc = "UserNotVerifiedException" -> 400
    [] exc = "UnauthorizedException" -> 401
    [] OTHER -> 500

\* -------------------------------------------------------------- AuthService
\* The service is not among the sources: each operation follows its entry
\* in the component design of the specification.
Range(seq) == {seq[i] : i \in 1..Len(seq)}

Without(seq, x) == SelectSeq(seq, LAMBDA y : y # x)

\* the list the request read written back whole
persistTokens_fullReplace(current, snap, removed, added) ==
  LET kept == IF removed = 0 THEN snap ELSE Without(snap, removed)
  IN IF added = 0 THEN kept ELSE Append(kept, added)

\* the write of a session change: the identifier to remove (0: none) and the
\* identifier to add (0: none) are applied to the list as the store holds it
\* at the time of the write, not to the list the request read
persistTokens(current, snap, removed, added) ==
  LET kept == IF removed = 0 THEN current ELSE Without(current, removed)
  IN IF added = 0 THEN kept ELSE Append(kept, added)

decodeConfirmationToken(tok) ==
  IF verifyToken(tok, "confirmation")
    THEN [exc |-> "none", email |-> tok.email]
    ELSE [exc |-> "BadRequestException", email |-> ""]

AuthService_userConfirmation(us, email) ==
  LET user == findOneByEmail(us, email) IN
  IF user.id = 0 THEN [users |-> us, exc |-> "UserNotFoundException"]
  ELSE IF user.verified
    THEN [users |-> us, exc |-> "UserAlreadyConfirmedException"]
    ELSE [users |-> updateRow(us, [user EXCEPT !.verified = TRUE]),
          exc |-> "none"]

AuthService_login(us, email, password, jti) ==
  LET user == findOneByEmail(us, email) IN
  IF user.id = 0
    THEN [users |-> us, exc |-> "UserNotFoundException", newJti |-> 0]
  ELSE IF ~user.verified
    THEN [users |-> us, exc |-> "UserNotVerifiedException", newJti |-> 0]
  ELSE IF ~validatePassword(user, password)
    THEN [users |-> us, exc |-> "UserAuthenticateException", newJti |-> 0]
  ELSE [users |-> updateRow(us, [user EXCEPT
                     !.refreshTokens = persistTokens(user.refreshTokens,
                                         user.refreshTokens, 0, jti)]),
        exc |-> "none", newJti |-> jti]

AuthService_logout(us, userId, tok) ==
  LET user == findOneById(us, userId) IN
  IF user.id = 0 \/ tok.jti \notin Range(user.refreshTokens)
    THEN [users |-> us, exc |-> "InvalidRefreshTokenException"]
    ELSE [users |-> updateRow(us, [user EXCEPT
                       !.refreshTokens = persistTokens(user.refreshTokens,
                                           user.refreshTokens, tok.jti, 0)]),
          exc |-> "none"]

\* the presented identifier kept beside the new one (no rotation)
AuthService_getNewToken_keepOld(us, tok, jti) ==
  LET user == findOneById(us, tok.sub) IN
  IF \/ ~verifyToken(tok, "refresh")
     \/ user.id = 0
     \/ tok.jti \notin Range(user.refreshTokens)
    THEN [users |-> us, exc |-> "InvalidRefreshTokenException", newJti |-> 0]
    ELSE [users |-> updateRow(us, [user EXCEPT
                       !.refreshTokens = persistTokens(user.refreshTokens,
                                           user.refreshTokens, 0, jti)]),
          exc |-> "none", newJti |-> jti]

AuthService_getNewToken(us, tok, jti) ==
  LET user == findOneById(us, tok.sub) IN
  IF \/ ~verifyToken(tok, "refresh")
     \/ user.id = 0
     \/ tok.jti \notin Range(user.refreshTokens)
    THEN [users |-> us, exc |-> "InvalidRefreshTokenException", newJti |-> 0]
    ELSE [users |-> updateRow(us, [user EXCEPT
                       !.refreshTokens = persistTokens(user.refreshTokens,
                                           user.refreshTokens, tok.jti, jti)]),
          exc |-> "none", newJti |-> jti]

\* a code the row already holds is kept, the new one dropped
AuthService_codeGenerator_keepFirst(us, email, code) ==
  LET user == findOneByEmail(us, email) IN
  IF user.id = 0 THEN [users |-> us, exc |-> "UserNotFoundException"]
  ELSE IF user.verificationCode # 0 THEN [users |-> us, exc |-> "none"]
  ELSE [users |-> updateRow(us, [user EXCEPT !.verificationCode = code]),
        exc |-> "none"]

AuthService_codeGenerator(us, email, code) ==
  LET user == findOneByEmail(us, email) IN
  IF user.id = 0 THEN [users |-> us, exc |-> "UserNotFoundException"]
  ELSE [users |-> updateRow(us, [user EXCEPT !.verificationCode = code]),
        exc |-> "none"]

\* age: whether the request arrives within the code's validity ("fresh") or
\* after it ("expired")
AuthService_resetPasswordConfirm(us, email, code, age, password) ==
  LET user == findOneByEmail(us, email) IN
  IF user.id = 0 THEN [users |-> us, exc |-> "UserNotFoundException"]
  ELSE IF user.verificationCode # code \/ age # "fresh"
    THEN [users |-> us, exc |-> "InvalidVerificationCodeException"]
    ELSE [users |-> updateRow(us, [user EXCEPT
                       !.password = bcryptHash(<<password>>),
                       !.refreshTokens = <<>>,
                       !.verificationCode = 0]),
          exc |-> "none"]

AuthService_updateCredentials(us, userId, password) ==
  LET user == findOneById(us, userId) IN
  IF user.id = 0 THEN [users |-> us, exc |-> "UserNotFoundException"]
  ELSE [users |-> updateRow(us, [user EXCEPT
                     !.password = bcryptHash(<<password>>)]),
        exc |-> "none"]

\* --------------------------------------------------------------- controllers
\* what a handler yields: the table after it, the status and the exception
\* behind it, the refresh-token identifier it issued and the mail it sent
Out(us, status, exc, newJti, mail) ==
  [users |-> us, status |-> status, exc |-> exc, newJti |-> newJti,
   mail |-> mail]

\* POST /users; the controller is not among the sources, its statuses are
\* those of the e2e tests
UsersController_register(us, email, password) ==
  LET r == registerUser(us, email, password) IN
  CASE r.exc = "none" -> Out(r.users, 201, r.exc, 0, "confirmation")
    [] r.exc = "UserDuplicateException" -> Out(us, 409, r.exc, 0, "none")
    [] OTHER -> Out(us, 500, r.exc, 0, "none")

\* UserAlreadyConfirmedException left out of the catch
userConfirmation_alreadyUnmapped(us, tok) ==
  LET d == decodeConfirmationToken(tok)
      r == IF d.exc = "none"
             THEN AuthService_userConfirmation(us, d.email)
             ELSE [users |-> us, exc |-> d.exc]
  IN CASE r.exc = "none" -> Out(r.users, 200, r.exc, 0, "none")
       [] r.exc = "UserNotFoundException" -> Out(us, 404, r.exc, 0, "none")
       [] r.exc = "BadRequestException" -> Out(us, 400, r.exc, 0, "none")
       [] OTHER -> Out(us, 500, r.exc, 0, "none")

\* GET /auth/confirmation/:token
userConfirmation(us, tok) ==
  LET d == decodeConfirmationToken(tok)
      r == IF d.exc = "none"
             THEN AuthService_userConfirmation(us, d.email)
             ELSE [users |-> us, exc |-> d.exc]
  IN CASE r.exc = "none" -> Out(r.users, 200, r.exc, 0, "none")
       [] r.exc = "UserNotFoundException" -> Out(us, 404, r.exc, 0, "none")
       [] r.exc = "UserAlreadyConfirmedException" ->
            Out(us, 400, r.exc, 0, "none")
       [] r.exc = "BadRequestException" -> Out(us, 400, r.exc, 0, "none")
       [] OTHER -> Out(us, 500, r.exc, 0, "none")

\* POST /auth/resend-confirmation
resendConfirmationLink(us, email) ==
  LET g == EmailExistGuard(us, email) IN
  IF g # "none" THEN Out(us, guardStatus(g), g, 0, "none")
  ELSE Out(us, 200, "none", 0, "confirmation")

\* UserAuthenticateException left out of the catch
login_unmapped(us, email, password, jti) ==
  LET g == EmailVerifiedGuard(us, email)
      r == AuthService_login(us, email, password, jti)
  IN IF g # "none" THEN Out(us, guardStatus(g), g, 0, "none")
     ELSE IF r.exc = "none" THEN Out(r.users, 201, r.exc, r.newJti, "none")
     ELSE Out(us, 500, r.exc, 0, "none")

\* POST /auth
login(us, email, password, jti) ==
  LET g == EmailVerifiedGuard(us, email)
      r == AuthService_login(us, email, password, jti)
  IN IF g # "none" THEN Out(us, guardStatus(g), g, 0, "none")
     ELSE CASE r.exc = "none" -> Out(r.users, 201, r.exc, r.newJti, "none")
            [] r.exc = "UserAuthenticateException" ->
                 Out(us, 401, r.exc, 0, "none")
            [] OTHER -> Out(us, 500, r.exc, 0, "none")

\* the session removed from the user the refresh token names instead of
\* the authenticated user
logout_tokenSubject(us, bearer, tok) ==
  LET g == JwtAuthGuard(bearer)
      r == AuthService_logout(us, tok.sub, tok)
  IN IF g # "none" THEN Out(us, guardStatus(g), g, 0, "none")
     ELSE CASE r.exc = "none" -> Out(r.users, 200, r.exc, 0, "none")
            [] r.exc = "InvalidRefreshTokenException" ->
                 Out(us, 400, r.exc, 0, "none")
            [] OTHER -> Out(us, 500, r.exc, 0, "none")

\* PATCH /auth
logout(us, bearer, tok) ==
  LET g == JwtAuthGuard(bearer)
      r == AuthService_logout(us, bearer.sub, tok)
  IN IF g # "none" THEN Out(us, guardStatus(g), g, 0, "none")
     ELSE CASE r.exc = "none" -> Out(r.users, 200, r.exc, 0, "none")
            [] r.exc = "InvalidRefreshTokenException" ->
                 Out(us, 400, r.exc, 0, "none")
            [] OTHER -> Out(us, 500, r.exc, 0, "none")

\* InvalidRefreshTokenException left out of the catch
getNewTokens_unmapped(us, tok, jti) ==
  LET r == AuthService_getNewToken(us, tok, jti) IN
  CASE r.exc = "none" -> Out(r.users, 200, r.exc, r.newJti, "none")
    [] OTHER -> Out(us, 500, r.exc, 0, "none")

\* PATCH /auth/tokens
getNewTokens(us, tok, jti) ==
  LET r == AuthService_getNewToken(us, tok, jti) IN
  CASE r.exc = "none" -> Out(r.users, 200, r.exc, r.newJti, "none")
    [] r.exc = "InvalidRefreshTokenException" -> Out(us, 400, r.exc, 0, "none")
    [] OTHER -> Out(us, 500, r.exc, 0, "none")

\* the handler without its guard
updateCredentials_unguarded(us, bearer, password) ==
  LET r == AuthService_updateCredentials(us, bearer.sub, password)
  IN IF r.exc = "none" THEN Out(r.users, 200, r.exc, 0, "none")
     ELSE Out(us, 500, r.exc, 0, "none")

\* PATCH /auth/credentials
updateCredentials(us, bearer, password) ==
  LET g == JwtAuthGuard(bearer)
      r == AuthService_updateCredentials(us, bearer.sub, password)
  IN IF g # "none" THEN Out(us, guardStatus(g), g, 0, "none")
     ELSE IF r.exc = "none" THEN Out(r.users, 200, r.exc, 0, "none")
     ELSE Out(us, 500, r.exc, 0, "none")

\* PATCH /auth/reset-password
resetPassword(us, email, code) ==
  LET g == EmailVerifiedGuard(us, email)
      r == AuthService_codeGenerator(us, email, code)
  IN IF g # "none" THEN Out(us, guardStatus(g), g, 0, "none")
     ELSE IF r.exc = "none" THEN Out(r.users, 200, r.exc, 0, "code")
     ELSE Out(us, 500, r.exc, 0, "none")

\* InvalidVerificationCodeException left out of the catch
resetPasswordConfirm_unmapped(us, email, code, age, password) ==
  LET g == EmailVerifiedGuard(us, email)
      r == AuthService_resetPasswordConfirm(us, email, code, age, password)
  IN IF g # "none" THEN Out(us, guardStatus(g), g, 0, "none")
     ELSE IF r.exc = "none" THEN Out(r.users, 200, r.exc, 0, "none")
     ELSE Out(us, 500, r.exc, 0, "none")

\* PATCH /auth/reset-password-confirm
resetPasswordConfirm(us, email, code, age, password) ==
  LET g == EmailVerifiedGuard(us, email)
      r == AuthService_resetPasswordConfirm(us, email, code, age, password)
  IN IF g # "none" THEN Out(us, guardStatus(g), g, 0, "none")
     ELSE CASE r.exc = "none" -> Out(r.users, 200, r.exc, 0, "none")
            [] r.exc = "InvalidVerificationCodeException" ->
                 Out(us, 400, r.exc, 0, "none")
            [] OTHER -> Out(us, 500, r.exc, 0, "none")

\* ------------------------------------------- users and profiles controllers
\* The controllers are not among the sources: their routes, guards and
\* statuses are those of the e2e tests.  A handler yields the three tables
\* after it, the status and the exception behind it.
Store(us, ps, ms, status, exc) ==
  [users |-> us, profiles |-> ps, measurements |-> ms, status |-> status,
   exc |-> exc, newJti |-> 0, mail |-> "none"]

\* GET /users
UsersController_getUser(us, ps, ms, bearer) ==
  LET g == JwtAuthGuard(bearer) IN
  IF g # "none" THEN Store(us, ps, ms, guardStatus(g), g)
  ELSE Store(us, ps, ms, 200, "none")

\* PATCH /users {height}; an id without a row updates nothing
UsersController_updateUser(us, ps, ms, bearer, height) ==
  LET g == JwtAuthGuard(bearer)
      user == getUser(us, bearer.sub)
  IN IF g # "none" THEN Store(us, ps, ms, guardStatus(g), g)
     ELSE IF user.id = 0 THEN Store(us, ps, ms, 200, "none")
     ELSE Store(updateRow(us, [user EXCEPT !.height = height]), ps, ms,
                200, "none")

\* DELETE /users
UsersController_deleteUser(us, ps, ms, bearer) ==
  LET g == JwtAuthGuard(bearer)
      r == deleteUser(us, bearer.sub)
  IN IF g # "none" THEN Store(us, ps, ms, guardStatus(g), g)
     ELSE IF findOneById(r.users, bearer.sub).id = 0
       THEN Store(r.users, onDeleteCascade(ps, bearer.sub),
                  onDeleteCascade(ms, bearer.sub), 200, "none")
       ELSE Store(r.users, ps, ms, 200, "none")

\* GET /profiles
ProfilesController_getProfile(us, ps, ms, bearer) ==
  LET g == JwtAuthGuard(bearer) IN
  IF g # "none" THEN Store(us, ps, ms, guardStatus(g), g)
  ELSE Store(us, ps, ms, 200, "none")

\* PATCH /profiles {height}
ProfilesController_updateProfile(us, ps, ms, bearer, height) ==
  LET g == JwtAuthGuard(bearer) IN
  IF g # "none" THEN Store(us, ps, ms, guardStatus(g), g)
  ELSE Store(us,
             {IF r.userId = bearer.sub THEN [r EXCEPT !.height = height]
                                       ELSE r : r \in ps},
             ms, 200, "none")

\* ----------------------------------------------------------------- requests
\* what a client sends as a bearer: an access or refresh token it holds, or
\* an access token after its expiry
Bearers ==
  {t \in issued : t.kind \in {"access", "refresh"}}
    \cup {[t EXCEPT !.sig = "expired"] : t \in {x \in issued : x.kind = "access"}}

\* what a client sends as the refresh token of a logout: a refresh or
\* access token it holds
Bodies == {t \in issued : t.kind \in {"refresh", "access"}}

\* the record of the last request: the operation and its outcome; when it
\* succeeded, the user it addressed and the refresh-token identifier it
\* presented; for a login, whether the password was that user's
Resp(op, out, uid, jti) ==
  [op |-> op, status |-> out.status, exc |-> out.exc,
   newJti |-> out.newJti, mail |-> out.mail,
   uid |-> IF out.exc = "none" THEN uid ELSE 0,
   jti |-> IF out.exc = "none" THEN jti ELSE 0,
   pwOk |-> FALSE]

NoResp == Resp("", Out(<<>>, 0, "none", 0, "none"), 0, 0)

Init ==
  /\ users = <<>>
  /\ issued = {}
  /\ nextJti = 1
  /\ revoked = {}
  /\ resp = NoResp
  /\ inflight = {}
  /\ profiles = {}
  /\ measurements = {}

\* Requests are served one at a time: a handler runs to completion, its
\* response is sent, and the next request is taken.
Idle == resp.op = ""

Respond ==
  /\ ~Idle
  /\ resp' = NoResp
  /\ UNCHANGED <<users, issued, nextJti, revoked, inflight, profiles,
                 measurements>>

PostUsers(email, password) ==
  LET out == UsersController_register(users, email, password) IN
  /\ Idle
  /\ users' = out.users
  /\ issued' = IF out.status = 201
                 THEN issued \cup {confirmationToken(email)} ELSE issued
  /\ profiles' = IF out.status = 201
                   THEN cascadeInsert(profiles, Len(out.users)) ELSE profiles
  /\ resp' = Resp("register", out, findOneByEmail(out.users, email).id, 0)
  /\ UNCHANGED <<nextJti, revoked, inflight, measurements>>

GetAuthConfirmation(tok) ==
  LET out == userConfirmation(users, tok) IN
  /\ Idle
  /\ users' = out.users
  /\ resp' = Resp("confirm", out, findOneByEmail(users, tok.email).id, 0)
  /\ UNCHANGED <<issued, nextJti, revoked, inflight, profiles, measurements>>

PostAuthResendConfirmation(email) ==
  LET out == resendConfirmationLink(users, email) IN
  /\ Idle
  /\ users' = out.users
  /\ issued' = IF out.mail = "confirmation"
                 THEN issued \cup {confirmationToken(email)} ELSE issued
  /\ resp' = Resp("resend", out, findOneByEmail(users, email).id, 0)
  /\ UNCHANGED <<nextJti, revoked, inflight, profiles, measurements>>

PostAuth(email, password) ==
  LET out == login(users, email, password, nextJti)
      uid == findOneByEmail(users, email).id
  IN /\ Idle
     /\ out.newJti # 0 => nextJti <= MaxTokens
     /\ users' = out.users
     /\ issued' = IF out.newJti # 0
                    THEN issued \cup {accessToken(uid),
                                      refreshToken(uid, out.newJti)}
                    ELSE issued
     /\ nextJti' = IF out.newJti # 0 THEN nextJti + 1 ELSE nextJti
     /\ resp' = [Resp("login", out, uid, 0) EXCEPT
                    !.pwOk = validatePassword(findOneByEmail(users, email),
                                              password)]
     /\ UNCHANGED <<revoked, inflight, profiles, measurements>>

PatchAuth(bearer, tok) ==
  LET out == logout(users, bearer, tok) IN
  /\ Idle
  /\ users' = out.users
  /\ revoked' = IF out.status = 200 THEN revoked \cup {tok.jti} ELSE revoked
  /\ resp' = Resp("logout", out,
                  IF JwtAuthGuard(bearer) = "none" THEN bearer.sub ELSE 0,
                  tok.jti)
  /\ UNCHANGED <<issued, nextJti, inflight, profiles, measurements>>

PatchAuthTokens(tok) ==
  LET out == getNewTokens(users, tok, nextJti) IN
  /\ Idle
  /\ out.newJti # 0 => nextJti <= MaxTokens
  /\ users' = out.users
  /\ issued' = IF out.newJti # 0
                 THEN issued \cup {accessToken(tok.sub),
                                   refreshToken(tok.sub, out.newJti)}
                 ELSE issued
  /\ nextJti' = IF out.newJti # 0 THEN nextJti + 1 ELSE nextJti
  /\ revoked' = IF out.status = 200 THEN revoked \cup {tok.jti} ELSE revoked
  /\ resp' = Resp("refresh", out, tok.sub, tok.jti)
  /\ UNCHANGED <<inflight, profiles, measurements>>

PatchAuthCredentials(bearer, password) ==
  LET out == updateCredentials(users, bearer, password) IN
  /\ Idle
  /\ users' = out.users
  /\ resp' = Resp("updateCredentials", out,
                  IF JwtAuthGuard(bearer) = "none" THEN bearer.sub ELSE 0, 0)
  /\ UNCHANGED <<issued, nextJti, revoked, inflight, profiles, measurements>>

PatchAuthResetPassword(email, code) ==
  LET out == resetPassword(users, email, code)
      uid == findOneByEmail(users, email).id
  IN /\ Idle
     /\ users' = out.users
     /\ resp' = Resp("requestReset", out, uid, 0)
     /\ UNCHANGED <<issued, nextJti, revoked, inflight, profiles, measurements>>

PatchAuthResetPasswordConfirm(email, code, age, password) ==
  LET out == resetPasswordConfirm(users, email, code, age, password)
      user == findOneByEmail(users, email)
  IN /\ Idle
     /\ users' = out.users
     /\ revoked' = IF out.status = 200
                     THEN revoked \cup Range(user.refreshTokens) ELSE revoked
     /\ resp' = Resp("confirmReset", out, user.id, 0)
     /\ UNCHANGED <<issued, nextJti, inflight, profiles, measurements>>

Next ==
  \/ \E email \in Emails, password \in Passwords : PostUsers(email, password)
  \/ \E tok \in Presentable("confirmation") : GetAuthConfirmation(tok)
  \/ \E email \in Emails : PostAuthResendConfirmation(email)
  \/ \E email \in Emails, password \in Passwords : PostAuth(email, password)
  \/ \E bearer \in Bearers, tok \in Bodies : PatchAuth(bearer, tok)
  \/ \E tok \in Presentable("refresh") : PatchAuthTokens(tok)
  \/ \E bearer \in Bearers, password \in Passwords :
       PatchAuthCredentials(bearer, password)
  \/ \E email \in Emails, code \in Codes : PatchAuthResetPassword(email, code)
  \/ \E email \in Emails, code \in Codes, age \in {"fresh", "expired"},
          password \in Passwords :
       PatchAuthResetPasswordConfirm(email, code, age, password)
  \/ Respond

Spec == Init /\ [][Next]_vars

\* ------------------------------------------------------------ thrown errors
\* What each handler of the auth controller answers when the call it makes
\* throws: an error is its class and its message, the answer a status and
\* the message of the HTTP exception the catch block builds.
GenericMessage == "Internal Server Error"

HttpException(status, message) == [status |-> status, message |-> message]

\* new InternalServerErrorException()
InternalServerErrorException == HttpException(500, GenericMessage)

userConfirmation_catch(error) ==
  CASE error.name = "UserNotFoundException" ->
         HttpException(404, error.message)
    [] error.name = "UserAlreadyConfirmedException" ->
         HttpException(400, error.message)
    [] error.name = "BadRequestException" -> HttpException(400, error.message)
    [] OTHER -> InternalServerErrorException

resendConfirmationLink_catch(error) == InternalServerErrorException

login_catch(error) ==
  CASE error.name = "UserAuthenticateException" ->
         HttpException(401, error.message)
    [] OTHER -> InternalServerErrorException

logout_catch(error) ==
  CASE error.name = "InvalidRefreshTokenException" ->
         HttpException(400, error.message)
    [] OTHER -> InternalServerErrorException

\* new InternalServerErrorException(error.message)
getNewTokens_catch(error) ==
  CASE error.name = "InvalidRefreshTokenException" ->
         HttpException(400, error.message)
    [] OTHER -> HttpException(500, error.message)

updateCredentials_catch(error) == InternalServerErrorException

resetPassword_catch(error) == InternalServerErrorException

resetPasswordConfirm_catch(error) ==
  CASE error.name = "InvalidVerificationCodeException" ->
         HttpException(400, error.message)
    [] OTHER -> InternalServerErrorException

Handlers ==
  {"confirm", "resend", "login", "logout", "refresh", "updateCredentials",
   "requestReset", "confirmReset"}

catch(op, error) ==
  CASE op = "confirm" -> userConfirmation_catch(error)
    [] op = "resend" -> resendConfirmationLink_catch(error)
    [] op = "login" -> login_catch(error)
    [] op = "logout" -> logout_catch(error)
    [] op = "refresh" -> getNewTokens_catch(error)
    [] op = "updateCredentials" -> updateCredentials_catch(error)
    [] op = "requestReset" -> resetPassword_catch(error)
    [] op = "confirmReset" -> resetPasswordConfirm_catch(error)

\* the domain errors, with the message each is raised with
DomainErrors ==
  {[name |-> "UserNotFoundException",
    message |-> "user with given email address not exist in database"],
   [name |-> "UserNotVerifiedException",
    message |-> "user with given email is not verified"],
   [name |-> "UserAlreadyConfirmedException",
    message |-> "user already confirmed"],
   [name |-> "BadRequestException", message |-> "invalid token"],
   [name |-> "UserAuthenticateException", message |-> "invalid credentials"],
   [name |-> "InvalidRefreshTokenException",
    message |-> "invalid refresh token"],
   [name |-> "InvalidVerificationCodeException",
    message |-> "invalid verification code"]}

\* errors no handler anticipates: a failure of the store, of the mail
\* service or of the code itself, each with a message of its own
InternalErrors ==
  {[name |-> n, message |-> m] :
     n \in {"QueryFailedError", "TypeError", "Error"},
     m \in {"connect ECONNREFUSED 10.0.0.5:5432",
            "relation \"users\" does not exist",
            "Cannot read properties of null (reading 'id')"}}

Errors == DomainErrors \cup InternalErrors

\* a request whose handler's call throws: the answer of the catch block,
\* the thrown error kept beside it
Throw(op, error) ==
  /\ Idle
  /\ resp' = [op |-> op, status |-> catch(op, error).status,
              exc |-> error.name, thrown |-> error.message,
              message |-> catch(op, error).message]
  /\ UNCHANGED <<users, issued, nextJti, revoked, inflight, profiles,
                 measurements>>

FaultNext ==
  \/ \E op \in Handlers, error \in Errors : Throw(op, error)
  \/ Respond

FaultSpec == Init /\ [][FaultNext]_vars

\* ------------------------------------------------------- account requests
\* The requests that carry a bearer, over the store the e2e tests start
\* from: two confirmed users, logged in, each with a profile and
\* measurements.
Heights == {170, 180}

\* no Authorization header
NoBearer == [Token("none", 0, "", 0) EXCEPT !.sig = "missing"]

\* what a client sends as a bearer: nothing, a token it holds, or an access
\* token with its signature broken or after its expiry
AnyBearer ==
  Bearers \cup {NoBearer}
    \cup {[t EXCEPT !.sig = "tampered"] : t \in {x \in issued : x.kind = "access"}}

Fixtures ==
  LET pw == "Qwert12345!"
      r1 == UsersController_register(<<>>, "a@x.com", pw)
      r2 == UsersController_register(r1.users, "b@x.com", pw)
      c1 == userConfirmation(r2.users, confirmationToken("a@x.com"))
      c2 == userConfirmation(c1.users, confirmationToken("b@x.com"))
      l1 == login(c2.users, "a@x.com", pw, 1)
  IN login(l1.users, "b@x.com", pw, 2)

AcctInit ==
  /\ users = Fixtures.users
  /\ issued = {confirmationToken("a@x.com"), confirmationToken("b@x.com"),
               accessToken(1), refreshToken(1, 1),
               accessToken(2), refreshToken(2, 2)}
  /\ nextJti = 3
  /\ revoked = {}
  /\ resp = NoResp
  /\ inflight = {}
  /\ profiles = cascadeInsert(cascadeInsert({}, 1), 2)
  /\ measurements = {[id |-> 1, userId |-> 1], [id |-> 2, userId |-> 1],
                     [id |-> 3, userId |-> 2]}

\* the user a request with this bearer is served for (0: refused)
CurrentUser(bearer) == IF JwtAuthGuard(bearer) = "none" THEN bearer.sub ELSE 0

\* a users or profiles handler's outcome taken over
Serve(op, out, bearer) ==
  /\ Idle
  /\ users' = out.users
  /\ profiles' = out.profiles
  /\ measurements' = out.measurements
  /\ resp' = Resp(op, out, CurrentUser(bearer), 0)
  /\ UNCHANGED <<issued, nextJti, revoked, inflight>>

GetUsers(bearer) ==
  Serve("getUser",
        UsersController_getUser(users, profiles, measurements, bearer), bearer)

PatchUsers(bearer, height) ==
  Serve("updateUser",
        UsersController_updateUser(users, profiles, measurements, bearer,
                                   height), bearer)

DeleteUsers(bearer) ==
  Serve("deleteUser",
        UsersController_deleteUser(users, profiles, measurements, bearer),
        bearer)

GetProfiles(bearer) ==
  Serve("getProfile",
        ProfilesController_getProfile(users, profiles, measurements, bearer),
        bearer)

PatchProfiles(bearer, height) ==
  Serve("updateProfile",
        ProfilesController_updateProfile(users, profiles, measurements,
                                         bearer, height), bearer)

AcctNext ==
  \/ \E bearer \in AnyBearer : GetUsers(bearer)
  \/ \E bearer \in AnyBearer, height \in Heights : PatchUsers(bearer, height)
  \/ \E bearer \in AnyBearer : DeleteUsers(bearer)
  \/ \E bearer \in AnyBearer : GetProfiles(bearer)
  \/ \E bearer \in AnyBearer, height \in Heights :
       PatchProfiles(bearer, height)
  \/ \E bearer \in AnyBearer, tok \in Bodies : PatchAuth(bearer, tok)
  \/ \E bearer \in AnyBearer, password \in Passwords :
       PatchAuthCredentials(bearer, password)
  \/ Respond

AcctSpec == AcctInit /\ [][AcctNext]_vars

\* ------------------------------------------------------ concurrent requests
\* Requests are served concurrently: a login, refresh or logout reads the
\* user's row, and writes its session change in a later step, with other
\* requests' reads and writes in between.
Slots == 1..MaxInflight

FreeSlots == Slots \ {r.slot : r \in inflight}

\* a new request takes the lowest free slot (none when all are taken)
NextSlot == {s \in FreeSlots : \A t \in FreeSlots : s <= t}

\* identifiers the requests in flight will still draw
Pending == Cardinality({r \in inflight : r.op # "logout"})

\* what the concurrent clients present: the tokens they were given, as
\* given (a refresh token may since have been rotated or logged out)
HeldRefresh == {t \in issued : t.kind = "refresh"}

HeldAccess == {t \in issued : t.kind = "access"}

Request(slot, op, uid, snap, jti) ==
  [slot |-> slot, op |-> op, uid |-> uid, snap |-> snap, jti |-> jti]

\* a store with one registered and confirmed user, no session open
ConcInit ==
  LET email == "a@x.com"
      reg == UsersController_register(<<>>, email, "Qwert12345!")
      conf == userConfirmation(reg.users, confirmationToken(email))
  IN /\ users = conf.users
     /\ issued = {confirmationToken(email)}
     /\ nextJti = 1
     /\ revoked = {}
     /\ resp = Resp("confirm", conf, 1, 0)
     /\ inflight = {}
     /\ profiles = cascadeInsert({}, 1)
     /\ measurements = {}

\* the read of a login: a request that fails answers at once
LoginRead(slot, email, password) ==
  LET out == login(users, email, password, nextJti)
      user == findOneByEmail(users, email)
  IN /\ out.status = 201 => nextJti + Pending <= MaxTokens
     /\ IF out.status = 201
          THEN /\ inflight' = inflight \cup
                    {Request(slot, "login", user.id, user.refreshTokens, 0)}
               /\ UNCHANGED resp
          ELSE /\ resp' = Resp("login", out, user.id, 0)
               /\ UNCHANGED inflight
     /\ UNCHANGED <<users, issued, nextJti, revoked, profiles, measurements>>

RefreshRead(slot, tok) ==
  LET out == getNewTokens(users, tok, nextJti) IN
  /\ out.status = 200 => nextJti + Pending <= MaxTokens
  /\ IF out.status = 200
       THEN /\ inflight' = inflight \cup
                 {Request(slot, "refresh", tok.sub,
                          users[tok.sub].refreshTokens, tok.jti)}
            /\ UNCHANGED resp
       ELSE /\ resp' = Resp("refresh", out, tok.sub, tok.jti)
            /\ UNCHANGED inflight
  /\ UNCHANGED <<users, issued, nextJti, revoked, profiles, measurements>>

LogoutRead(slot, bearer, tok) ==
  LET out == logout(users, bearer, tok) IN
  /\ IF out.status = 200
       THEN /\ inflight' = inflight \cup
                 {Request(slot, "logout", bearer.sub,
                          users[bearer.sub].refreshTokens, tok.jti)}
            /\ UNCHANGED resp
       ELSE /\ resp' = Resp("logout", out, bearer.sub, tok.jti)
            /\ UNCHANGED inflight
  /\ UNCHANGED <<users, issued, nextJti, revoked, profiles, measurements>>

\* the write of a request in flight, and its answer
Persist(r) ==
  LET added == IF r.op = "logout" THEN 0 ELSE nextJti
      row == users[r.uid]
      list == persistTokens(row.refreshTokens, r.snap, r.jti, added)
      status == IF r.op = "login" THEN 201 ELSE 200
  IN /\ users' = updateRow(users, [row EXCEPT !.refreshTokens = list])
     /\ issued' = IF added # 0
                    THEN issued \cup {accessToken(r.uid),
                                      refreshToken(r.uid, added)}
                    ELSE issued
     /\ nextJti' = IF added # 0 THEN nextJti + 1 ELSE nextJti
     /\ revoked' = IF r.jti # 0 THEN revoked \cup {r.jti} ELSE revoked
     /\ resp' = Resp(r.op, Out(users', status, "none", added, "none"),
                     r.uid, r.jti)
     /\ inflight' = inflight \ {r}
     /\ UNCHANGED <<profiles, measurements>>

ConcNext ==
  \/ \E slot \in NextSlot, email \in Emails, password \in Passwords :
       LoginRead(slot, email, password)
  \/ \E slot \in NextSlot, tok \in HeldRefresh :
       RefreshRead(slot, tok)
  \/ \E slot \in NextSlot, bearer \in HeldAccess, tok \in HeldRefresh :
       LogoutRead(slot, bearer, tok)
  \/ \E r \in inflight : Persist(r)

ConcSpec == ConcInit /\ [][ConcNext]_vars

\* --------------------------------------------------- concurrent registration
\* POST /users served concurrently: registerUser's lookup and its save are
\* two steps, with other requests' lookups and saves in between; the store
\* checks the unique email at the save.
RegisterFind(slot, email, password) ==
  /\ IF findOneByEmail(users, email).id # 0
       THEN /\ resp' = Resp("register",
                            Out(users, 409, "UserDuplicateException", 0,
                                "none"), 0, 0)
            /\ UNCHANGED inflight
       ELSE /\ inflight' = inflight \cup
                 {[slot |-> slot, op |-> "register", email |-> email,
                   password |-> password]}
            /\ UNCHANGED resp
  /\ UNCHANGED <<users, issued, nextJti, revoked, profiles, measurements>>

RegisterSave(r) ==
  LET s == saveNew(users, createUser(Len(users) + 1, r.email, r.password))
      out == CASE s.exc = "none" -> Out(s.users, 201, s.exc, 0, "confirmation")
               [] s.exc = "UserDuplicateException" ->
                    Out(users, 409, s.exc, 0, "none")
               [] OTHER -> Out(users, 500, s.exc, 0, "none")
  IN /\ users' = out.users
     /\ profiles' = IF out.status = 201
                      THEN cascadeInsert(profiles, Len(out.users))
                      ELSE profiles
     /\ issued' = IF out.status = 201
                    THEN issued \cup {confirmationToken(r.email)} ELSE issued
     /\ resp' = Resp("register", out, Len(out.users), 0)
     /\ inflight' = inflight \ {r}
     /\ UNCHANGED <<nextJti, revoked, measurements>>

RegNext ==
  \/ \E slot \in NextSlot, email \in Emails, password \in Passwords :
       RegisterFind(slot, email, password)
  \/ \E r \in inflight : RegisterSave(r)

RegSpec == Init /\ [][RegNext]_vars

\* =================================================================== claims
Stored(us, uid) == Range(us[uid].refreshTokens)

WithEmail(us, email) == {i \in Ids(us) : us[i].email = email}

\* C1: registering an email the store does not hold answers 201 and adds
\* exactly one row with that email, every other row kept; registering an
\* email the store holds answers 409 (UserDuplicateException) and leaves the
\* store as it was; either way the store then holds exactly one row with
\* that email.
C1_RegisterOnce ==
  [][\A email \in Emails, password \in Passwords :
       (resp'.op = "register" /\ PostUsers(email, password)) =>
         /\ Cardinality(WithEmail(users', email)) = 1
         /\ IF WithEmail(users, email) = {}
              THEN /\ resp'.status = 201
                   /\ users' = Append(users, users'[Len(users')])
                   /\ users'[Len(users')].email = email
              ELSE /\ resp'.status = 409
                   /\ resp'.exc = "UserDuplicateException"
                   /\ users' = users]_vars

C1_Witness ==
  /\ resp.op = "register"
  /\ resp.status = 409
  /\ \E email \in Emails : Cardinality(WithEmail(users, email)) = 1

\* C2: a login for a user whose verified flag is false answers 400
\* (UserNotVerifiedException) whatever the password, returns no token and
\* leaves the store and the tokens in circulation as they were; a login that
\* issues tokens is for a verified user.
C2_LoginNeedsVerified ==
  [][\A email \in Emails, password \in Passwords :
       (resp'.op = "login" /\ PostAuth(email, password)) =>
         LET user == findOneByEmail(users, email) IN
         /\ (user.id # 0 /\ ~user.verified) =>
               /\ resp'.status = 400
               /\ resp'.exc = "UserNotVerifiedException"
               /\ resp'.newJti = 0
               /\ users' = users
               /\ issued' = issued
         /\ resp'.newJti # 0 => user.id # 0 /\ user.verified]_vars

C2_Witness ==
  /\ resp.op = "login"
  /\ resp.exc = "UserNotVerifiedException"
  /\ resp.pwOk

\* a refresh request that presents an identifier a successful refresh,
\* logout or reset has removed answers 400 (InvalidRefreshTokenException)
ReplayFails ==
  \/ /\ resp'.status = 400
     /\ resp'.exc = "InvalidRefreshTokenException"
     /\ users' = users
  \/ \A tok \in Presentable("refresh") :
       tok.jti \in revoked => ~PatchAuthTokens(tok)

\* C3: a refresh that answers 200 removes the presented identifier from the
\* user's refreshTokens and puts exactly one identifier, never issued
\* before, in its place: the other identifiers, the size of the list and
\* every other row are kept; from then on a refresh that presents the old
\* identifier answers 400 (InvalidRefreshTokenException).
C3_RefreshRotates ==
  [][resp'.op = "refresh" =>
       /\ ReplayFails
       /\ \A tok \in Presentable("refresh") :
            (resp'.status = 200 /\ PatchAuthTokens(tok)) =>
               /\ tok.jti \in Stored(users, tok.sub)
               /\ tok.jti \notin Stored(users', tok.sub)
               /\ tok.jti \in revoked'
               /\ resp'.newJti \notin {t.jti : t \in issued}
               /\ Stored(users', tok.sub) =
                    (Stored(users, tok.sub) \ {tok.jti}) \cup {resp'.newJti}
               /\ Len(users'[tok.sub].refreshTokens) =
                    Len(users[tok.sub].refreshTokens)
               /\ users' = [users EXCEPT ![tok.sub].refreshTokens =
                                            users'[tok.sub].refreshTokens]]_vars

C3_Witness ==
  /\ resp.op = "refresh"
  /\ resp.status = 400
  /\ resp.exc = "InvalidRefreshTokenException"
  /\ revoked # {}
  /\ \E i \in Ids(users) : Stored(users, i) # {} /\ Stored(users, i) \cap revoked = {}

\* C4: a logout that answers 200 removes the presented identifier, which
\* the authenticated user held, from that user's refreshTokens and changes
\* nothing else in the store; a refresh with the removed identifier then
\* answers 400, one with any identifier the user still holds answers 200,
\* and the removed identifier stays refused afterwards.
C4_LogoutOneSession ==
  [][/\ resp'.op = "logout" =>
          \A bearer \in Bearers, tok \in Bodies :
            (resp'.status = 200 /\ PatchAuth(bearer, tok)) =>
               /\ tok.jti \in Stored(users, bearer.sub)
               /\ users' = [users EXCEPT ![bearer.sub].refreshTokens =
                              Without(users[bearer.sub].refreshTokens, tok.jti)]
               /\ tok.jti \in revoked'
               /\ getNewTokens(users', refreshToken(bearer.sub, tok.jti),
                               nextJti').status = 400
               /\ \A other \in Stored(users, bearer.sub) \ {tok.jti} :
                    getNewTokens(users', refreshToken(bearer.sub, other),
                                 nextJti').status = 200
     /\ resp'.op = "refresh" => ReplayFails
     /\ \A i \in Ids(users') : Stored(users', i) \cap revoked' = {}]_vars

C4_Witness ==
  /\ resp.op = "logout"
  /\ resp.status = 200
  /\ resp.jti \in revoked
  /\ Stored(users, resp.uid) # {}

\* C5: a password-reset confirmation that answers 200 leaves the user's
\* refreshTokens empty; every refresh token issued to that user before is
\* refused (400) by refresh, then and afterwards; a login with the new
\* password answers 201 and one with any other password, the old one
\* included, answers 401.
C5_ResetInvalidatesSessions ==
  [][/\ resp'.op = "confirmReset" =>
          \A email \in Emails, code \in Codes, age \in {"fresh", "expired"},
             password \in Passwords :
            (/\ resp'.status = 200
             /\ PatchAuthResetPasswordConfirm(email, code, age, password)) =>
               LET uid == findOneByEmail(users, email).id IN
               /\ uid # 0
               /\ users'[uid].refreshTokens = <<>>
               /\ Stored(users, uid) \subseteq revoked'
               /\ \A t \in {x \in issued : x.kind = "refresh" /\ x.sub = uid} :
                    /\ t.jti \in revoked'
                    /\ getNewTokens(users', t, nextJti').status = 400
               /\ login(users', email, password, nextJti').status = 201
               /\ \A other \in Passwords \ {password} :
                    login(users', email, other, nextJti').status = 401
     /\ resp'.op = "refresh" => ReplayFails
     /\ \A i \in Ids(users') : Stored(users', i) \cap revoked' = {}]_vars

\* a reset that replaced the password, with a session open before it
C5_Witness ==
  /\ resp.op = "confirmReset"
  /\ resp.status = 200
  /\ \E t \in issued : t.kind = "refresh" /\ t.sub = resp.uid
  /\ \E p \in Passwords :
       /\ validatePassword(users[resp.uid], p)
       /\ \E q \in Passwords \ {p} : ~validatePassword(users[resp.uid], q)

\* C6: a registration creates its row with verified = FALSE; a confirmation
\* with a token that verifies, for an unverified user, answers 200 and sets
\* verified (nothing else); for a verified user it answers 400
\* (UserAlreadyConfirmedException) and changes nothing; with a tampered or
\* expired token, or a token of another kind, it answers 400
\* (BadRequestException) and changes nothing; no step sets a verified flag
\* back to FALSE.
C6_VerifiedOnce ==
  [][/\ resp'.op = "register" /\ resp'.status = 201 =>
          ~users'[Len(users')].verified
     /\ resp'.op = "confirm" =>
          \A tok \in Presentable("confirmation") :
            GetAuthConfirmation(tok) =>
              LET user == findOneByEmail(users, tok.email) IN
              IF ~verifyToken(tok, "confirmation")
                THEN /\ resp'.status = 400
                     /\ resp'.exc = "BadRequestException"
                     /\ users' = users
              ELSE IF user.id # 0 /\ user.verified
                THEN /\ resp'.status = 400
                     /\ resp'.exc = "UserAlreadyConfirmedException"
                     /\ users' = users
              ELSE IF user.id # 0
                THEN /\ resp'.status = 200
                     /\ users' = [users EXCEPT ![user.id].verified = TRUE]
              ELSE resp'.status = 404 /\ users' = users
     /\ \A i \in Ids(users) : users[i].verified => users'[i].verified]_vars

C6_Witness ==
  /\ resp.op = "confirm"
  /\ resp.exc = "UserAlreadyConfirmedException"
  /\ \E i \in Ids(users) : users[i].verified
  /\ \E i \in Ids(users) : ~users[i].verified

C8_LoginOrder ==
  [][resp'.op = "login" =>
       \A email \in Emails, password \in Passwords :
         PostAuth(email, password) =>
           LET user == findOneByEmail(users, email) IN
           IF user.id = 0
             THEN /\ resp'.status = 404
                  /\ resp'.exc = "UserNotFoundException"
                  /\ users' = users /\ issued' = issued
           ELSE IF ~user.verified
             THEN /\ resp'.status = 400
                  /\ resp'.exc = "UserNotVerifiedException"
                  /\ users' = users /\ issued' = issued
           ELSE IF user.password # bcryptHash(<<password>>)
             THEN /\ resp'.status = 401
                  /\ resp'.exc = "UserAuthenticateException"
                  /\ users' = users /\ issued' = issued
           ELSE /\ resp'.status = 201
                /\ resp'.newJti = nextJti
                /\ {accessToken(user.id), refreshToken(user.id, nextJti)}
                     \subseteq issued'
                /\ users' = [users EXCEPT ![user.id].refreshTokens =
                                            Append(@, nextJti)]]_vars

\* a wrong password for an unverified user is answered 400, not 401
C8_Witness ==
  /\ resp.op = "login"
  /\ resp.status = 400
  /\ resp.exc = "UserNotVerifiedException"
  /\ ~resp.pwOk

\* C9: a resend-confirmation request answers 404 (UserNotFoundException)
\* when no row has the email and fails with UserAlreadyConfirmedException
\* when the row is verified; a confirmation mail goes out only for an
\* existing, unverified user; the store is left as it was.
C9_ResendOnlyUnverified ==
  [][resp'.op = "resend" =>
       \A email \in Emails :
         PostAuthResendConfirmation(email) =>
           LET user == findOneByEmail(users, email) IN
           /\ users' = users
           /\ user.id = 0 =>
                resp'.status = 404 /\ resp'.exc = "UserNotFoundException"
           /\ (user.id # 0 /\ user.verified) =>
                resp'.exc = "UserAlreadyConfirmedException"
           /\ resp'.mail = "confirmation" =>
                user.id # 0 /\ ~user.verified]_vars

\* C10: for an existing, verified user, a password-reset confirmation whose
\* code differs from the row's verificationCode, or which arrives after the
\* code's expiry, answers 400 (InvalidVerificationCodeException) and leaves
\* the store as it was: afterwards the password that logged in still does
\* (201, every other one 401), and every refresh token the user holds still
\* refreshes.
C10_BadCodeChangesNothing ==
  [][resp'.op = "confirmReset" =>
       \A email \in Emails :
         LET user == findOneByEmail(users, email) IN
         (/\ user.id # 0 /\ user.verified
          /\ \E code \in Codes, age \in {"fresh", "expired"},
                password \in Passwords :
               /\ user.verificationCode # code \/ age = "expired"
               /\ PatchAuthResetPasswordConfirm(email, code, age, password)) =>
            /\ resp'.status = 400
            /\ resp'.exc = "InvalidVerificationCodeException"
            /\ users' = users
            /\ revoked' = revoked
            /\ \A p \in Passwords :
                 login(users', email, p, nextJti').status =
                   IF validatePassword(user, p) THEN 201 ELSE 401
            /\ \A jti \in Stored(users, user.id) :
                 getNewTokens(users', refreshToken(user.id, jti),
                              nextJti').status = 200]_vars

\* a refused confirmation for a user who holds a code and an open session
C10_Witness ==
  /\ resp.op = "confirmReset"
  /\ resp.exc = "InvalidVerificationCodeException"
  /\ \E i \in Ids(users) :
       users[i].verificationCode # 0 /\ users[i].refreshTokens # <<>>

\* the refresh-token identifiers the system issued to user i
IssuedTo(i) == {t.jti : t \in {x \in issued : x.kind = "refresh" /\ x.sub = i}}

\* C11: in every reachable state, every identifier in a user's
\* refreshTokens was issued by a successful login or refresh for that same
\* user and has not since been consumed by a refresh, removed by a logout or
\* invalidated by a password reset; no identifier is in the refreshTokens of
\* two users (nor twice in one).
C11_TokensIssuedAndLive ==
  /\ \A i \in Ids(users) :
       /\ Stored(users, i) \subseteq IssuedTo(i)
       /\ Stored(users, i) \cap revoked = {}
       /\ Cardinality(Stored(users, i)) = Len(users[i].refreshTokens)
  /\ \A i, j \in Ids(users) :
       i # j => Stored(users, i) \cap Stored(users, j) = {}

\* two users hold sessions, and an identifier of one has been taken away
C11_Witness ==
  /\ \A i \in Ids(users) : Stored(users, i) # {}
  /\ Len(users) = 2
  /\ \E i \in Ids(users) : IssuedTo(i) \cap revoked # {}

\* the rows of a table that user id owns
OwnedBy(rows, id) == {r \in rows : r.userId = id}

\* C12: a DELETE /users with a valid access token answers 200; afterwards
\* no row has the user's id or email, no profile and no measurement is owned
\* by the user, and the rows, profiles and measurements of every other user
\* are as they were.
C12_DeleteCascades ==
  [][resp'.op = "deleteUser" =>
       \A bearer \in AnyBearer :
         (verifyToken(bearer, "access") /\ DeleteUsers(bearer)) =>
           LET id == bearer.sub
               email == findOneById(users, id).email
           IN /\ resp'.status = 200
              /\ findOneById(users', id).id = 0
              /\ email # "" => findOneByEmail(users', email).id = 0
              /\ \A i \in Ids(users') : users'[i].id # id
              /\ OwnedBy(profiles', id) = {}
              /\ OwnedBy(measurements', id) = {}
              /\ Len(users') = Len(users)
              /\ \A i \in Ids(users) \ {id} : users'[i] = users[i]
              /\ profiles' = profiles \ OwnedBy(profiles, id)
              /\ measurements' = measurements \ OwnedBy(measurements, id)]_vars

\* an account with a profile and measurements was deleted; the other
\* user's row, profile and measurement are in the store
C12_Witness ==
  /\ resp.op = "deleteUser"
  /\ resp.status = 200
  /\ resp.uid = 1
  /\ users[1].id = 0
  /\ users[2].id = 2
  /\ OwnedBy(profiles, 2) # {}
  /\ OwnedBy(measurements, 2) # {}
  /\ OwnedBy(measurements, 1) = {}

\* C16: a bearer-protected request (GET, PATCH or DELETE /users, GET or
\* PATCH /profiles, logout, update-credentials) without a bearer, or with a
\* bearer that is not a valid access token (broken signature, expired, or a
\* refresh token), answers 401 and leaves users, profiles, measurements and
\* the tokens in force as they were.
Refused ==
  /\ resp'.status = 401
  /\ resp'.exc = "UnauthorizedException"
  /\ users' = users
  /\ profiles' = profiles
  /\ measurements' = measurements
  /\ revoked' = revoked
  /\ issued' = issued

C16_BearerRequired ==
  [][\A bearer \in AnyBearer :
       ~verifyToken(bearer, "access") =>
         /\ resp'.op = "getUser" /\ GetUsers(bearer) => Refused
         /\ resp'.op = "getProfile" /\ GetProfiles(bearer) => Refused
         /\ resp'.op = "deleteUser" /\ DeleteUsers(bearer) => Refused
         /\ resp'.op = "updateUser" =>
              \A height \in Heights : PatchUsers(bearer, height) => Refused
         /\ resp'.op = "updateProfile" =>
              \A height \in Heights : PatchProfiles(bearer, height) => Refused
         /\ resp'.op = "logout" =>
              \A tok \in Bodies : PatchAuth(bearer, tok) => Refused
         /\ resp'.op = "updateCredentials" =>
              \A password \in Passwords :
                PatchAuthCredentials(bearer, password) => Refused]_vars

\* a request was refused 401 in a store where requests with a valid bearer
\* have changed a height, a password and a session
C16_Witness ==
  /\ resp.status = 401
  /\ resp.op = "updateCredentials"
  /\ \E i \in Ids(users) : users[i].height # 0
  /\ \E r \in profiles : r.height # 0
  /\ \E i \in Ids(users) : validatePassword(users[i], "Asdfg67890?")
  /\ revoked # {}

\* a confirmation of a reset with this code is refused, whenever it arrives
\* and whatever the new password
CodeRefused(us, email, code) ==
  \A age \in {"fresh", "expired"}, password \in Passwords :
    LET out == resetPasswordConfirm(us, email, code, age, password) IN
    /\ out.status = 400
    /\ out.exc = "InvalidVerificationCodeException"
    /\ out.users = us

\* C13: after a password-reset confirmation that answers 200, a second
\* confirmation with the same code (with any code) is refused with
\* InvalidVerificationCodeException; after a reset request that answers 200
\* and issues a code other than the one the row held, the code of the
\* earlier request is refused and the new one is accepted.
C13_CodeOneTime ==
  [][/\ (resp'.op = "confirmReset" /\ resp'.status = 200) =>
          \A email \in Emails, code \in Codes, age \in {"fresh", "expired"},
             password \in Passwords :
            PatchAuthResetPasswordConfirm(email, code, age, password) =>
              /\ findOneByEmail(users, email).verificationCode = code
              /\ \A c \in Codes : CodeRefused(users', email, c)
     /\ (resp'.op = "requestReset" /\ resp'.status = 200) =>
          \A email \in Emails, code \in Codes :
            PatchAuthResetPassword(email, code) =>
              LET earlier == findOneByEmail(users, email).verificationCode IN
              /\ (earlier # 0 /\ earlier # code) =>
                    CodeRefused(users', email, earlier)
              /\ \A password \in Passwords :
                    resetPasswordConfirm(users', email, code, "fresh",
                                         password).status = 200]_vars

\* a reset has been confirmed and its code is used up
C13_Witness ==
  /\ resp.op = "confirmReset"
  /\ resp.status = 200
  /\ users[resp.uid].verificationCode = 0
  /\ \E i \in Ids(users) : users[i].verificationCode # 0

\* C14: a refresh that presents an access token or a confirmation token
\* answers 400 (InvalidRefreshTokenException) and changes nothing: no row,
\* no token issued, no identifier removed; a logout or an update of
\* credentials whose bearer is a refresh token answers 401 and changes
\* nothing.
C14_KindsNotInterchangeable ==
  [][/\ resp'.op = "refresh" =>
          \/ /\ resp'.status = 400
             /\ resp'.exc = "InvalidRefreshTokenException"
             /\ UNCHANGED <<users, issued, nextJti, revoked>>
          \/ \A tok \in Presentable("refresh") :
               tok.kind # "refresh" => ~PatchAuthTokens(tok)
     /\ resp'.op = "logout" =>
          \/ /\ resp'.status = 401
             /\ resp'.exc = "UnauthorizedException"
             /\ UNCHANGED <<users, issued, nextJti, revoked>>
          \/ \A bearer \in Bearers, tok \in Bodies :
               bearer.kind = "refresh" => ~PatchAuth(bearer, tok)
     /\ resp'.op = "updateCredentials" =>
          \/ /\ resp'.status = 401
             /\ resp'.exc = "UnauthorizedException"
             /\ UNCHANGED <<users, issued, nextJti, revoked>>
          \/ \A bearer \in Bearers, password \in Passwords :
               bearer.kind = "refresh" =>
                 ~PatchAuthCredentials(bearer, password)]_vars

\* a refresh was refused where no refresh token has been issued yet: what
\* it presented was a confirmation token
C14_Witness ==
  /\ resp.op = "refresh"
  /\ resp.status = 400
  /\ nextJti = 1
  /\ \E t \in issued : t.kind = "confirmation"

\* the domain errors the status table maps for each operation of the auth
\* controller
Mapped(op) ==
  CASE op = "confirm" -> {"UserNotFoundException",
                          "UserAlreadyConfirmedException",
                          "BadRequestException"}
    [] op = "login" -> {"UserAuthenticateException"}
    [] op = "logout" -> {"InvalidRefreshTokenException"}
    [] op = "refresh" -> {"InvalidRefreshTokenException"}
    [] op = "confirmReset" -> {"InvalidVerificationCodeException"}
    [] OTHER -> {}

\* C15: for every operation of the auth controller, an error thrown in the
\* handler that is not one of the operation's mapped domain errors is
\* answered 500 with the generic message, not with the message of the
\* error.
C15_Generic500 ==
  (resp.op \in Handlers /\ resp.exc \notin Mapped(resp.op)) =>
    /\ resp.status = 500
    /\ resp.message = GenericMessage
    /\ resp.message # resp.thrown

\* C17: whatever the interleaving of the lookups and saves of concurrent
\* registrations, a registration answers 201 or fails with
\* UserDuplicateException (409), a registration for an email answers 201
\* only once, and the store never holds two rows with one email.
C17_ConcurrentRegister ==
  /\ \A email \in Emails : Cardinality(WithEmail(users, email)) <= 1
  /\ Len(users) = Cardinality({t \in issued : t.kind = "confirmation"})
  /\ resp.op = "register" =>
       \/ resp.status = 201
       \/ resp.status = 409 /\ resp.exc = "UserDuplicateException"

C19_LogoutOwnSessionsOnly ==
  [][resp'.op = "logout" =>
       \A bearer \in Bearers, tok \in Bodies :
         (/\ verifyToken(bearer, "access")
          /\ tok.kind = "refresh"
          /\ tok.sub # bearer.sub
          /\ tok.jti \in Stored(users, tok.sub)
          /\ PatchAuth(bearer, tok)) =>
            /\ resp'.status = 400
            /\ resp'.exc = "InvalidRefreshTokenException"
            /\ users'[tok.sub].refreshTokens = users[tok.sub].refreshTokens
            /\ users' = users
            /\ revoked' = revoked
            /\ getNewTokens(users', tok, nextJti').status = 200]_vars

\* a logout was refused while two users hold sessions and no identifier
\* has been taken away
C19_Witness ==
  /\ resp.op = "logout"
  /\ resp.exc = "InvalidRefreshTokenException"
  /\ revoked = {}
  /\ Len(users) = 2
  /\ \A i \in Ids(users) : Stored(users, i) # {}

====
